---- MODULE Spec2Model ----
(***************************************************************************)
(* Roster and session state engine of the football team bot (src/bot.py).  *)
(*                                                                         *)
(* The persisted document players.json is the only state that survives a   *)
(* handler.  Every handler loads it, mutates its own in-memory copy and    *)
(* (on some paths) saves the copy back.  The Application is built with the *)
(* library defaults, so updates are processed one at a time: a handler is  *)
(* one step of the model (Spec).  SpecRoster and SpecPartition start from  *)
(* sessions with up to MaxRoster joiners.  SpecStore splits save_data into *)
(* its open, writes and close, any of which can be the last.  SpecRace     *)
(* lets the handlers of different updates interleave at their awaits.      *)
(***************************************************************************)
EXTENDS Integers, Sequences, FiniteSets, TLC

(* ---- bounds of the model ---- *)
NumActors == 2
MaxDistinct == 7
MaxRoster == 13
MaxPending == 2

(* ---- program constants ---- *)
PLAYERS_PER_TEAM == 6

\* file: players.json.  last: the update handled last and its reply.
\* tasks: the handlers that are suspended before their save (none in a
\* sequential run).  opted_in: what the chat has heard, the actors who said
\* "in" in the session's chat since the last begin or reset and have not said
\* "out" since.
VARIABLES file, last, tasks, opted_in

vars == <<file, last, tasks, opted_in>>

(* ---- Python values ---- *)

\* Python's None and a present value, kept apart from every int and string.
None == <<>>

Some(x) == <<x>>

\* Truth value of an optional string (None and "" are falsy).
Truthy(v) == v # None /\ v # Some("")

Actors == 1..NumActors

\* Two chats: the one a session is scoped to and another one.
Chats == {1, 2}

\* str(user_id), the key of the players table
str(user_id) == ToString(user_id)

\* What Telegram reports about the sender of an update: first_name, username.
Profiles ==
    { [name |-> "Ann", username |-> None],
      [name |-> "Bob", username |-> Some("bob")] }

\* Actor 1 changes first_name and takes a username between updates; the
\* other actors keep theirs.
ProfilesOf(user_id) ==
    IF user_id = 1 THEN Profiles ELSE { p \in Profiles : p.username # None }

(* ---- list helpers (Python list semantics) ---- *)

\* x in lst
In(x, lst) == \E i \in DOMAIN lst : lst[i] = x

\* lst.remove(x): drops the first occurrence
ListRemove(lst, x) ==
    LET i == CHOOSE k \in DOMAIN lst :
                 lst[k] = x /\ \A j \in 1..(k - 1) : lst[j] # x
    IN  SubSeq(lst, 1, i - 1) \o SubSeq(lst, i + 1, Len(lst))

\* dict[key] = value
DictSet(d, key, value) ==
    [k \in DOMAIN d \cup {key} |-> IF k = key THEN value ELSE d[k]]

EmptyDict == [k \in {} |-> None]

(* ---- Store ---- *)

init_data ==
    [ admins  |-> <<>>,
      players |-> EmptyDict,
      session |-> [ active       |-> FALSE,
                    participants |-> <<>>,
                    chat_id      |-> None ] ]

\* The file is absent (<<>>), holds one JSON document (<<doc>>) or holds the
\* beginning of one (<<doc, k>>).  json.dump followed by json.load gives back
\* the same document: keys of players are already strings, every other value
\* is an int, a bool, a string, None or a list of those.

\* The members of the document, in the order json.dump writes them.
Keys == <<"admins", "players", "session">>

\* The file after open(DATA_FILE, "w"), which empties it, and the first k
\* members of data: the closing brace is not there, so json.load raises.
Written(data, k) == <<data, k>>

\* Mutant: whatever the file holds is taken for the document.
load_data_lenient(f) == IF f = <<>> THEN init_data ELSE f[1]

\* No file: init_data().  A file json.load parses: the document.  Any other
\* file: the exception is caught and init_data() returned.
load_data(f) ==
    IF f = <<>>
    THEN init_data
    ELSE IF Len(f) = 1
    THEN f[1]
    ELSE init_data

save_data(data) == <<data>>

is_admin(user_id, data) == In(user_id, data.admins)

(* ---- Team Partitioner ---- *)

\* The first index of each distinct value of lst.
FirstOccurrences(lst) ==
    { i \in DOMAIN lst : \A j \in 1..(i - 1) : lst[j] # lst[i] }

DropAt(lst, i) == SubSeq(lst, 1, i - 1) \o SubSeq(lst, i + 1, Len(lst))

\* random.shuffle(shuffled): every arrangement of the list can come out.
RECURSIVE Shuffles(_)
Shuffles(lst) ==
    IF lst = <<>>
    THEN {<<>>}
    ELSE UNION { { <<lst[i]>> \o rest : rest \in Shuffles(DropAt(lst, i)) } :
                 i \in FirstOccurrences(lst) }

\* range(0, num_players, step) as a list
Range(num_players, step) ==
    LET starts == { i \in 0..(num_players - 1) : i % step = 0 }
    IN  [k \in 1..Cardinality(starts) |-> (k - 1) * step]

\* shuffled[i:i+PLAYERS_PER_TEAM] (0-based slice, clipped at the end)
Slice(lst, i, j) ==
    SubSeq(lst, i + 1, IF j < Len(lst) THEN j ELSE Len(lst))

\* Mutant: only full teams are built, the remainder is dropped.
TeamsOf_full_only(shuffled) ==
    [k \in 1..(Len(shuffled) \div PLAYERS_PER_TEAM) |->
        SubSeq(shuffled, (k - 1) * PLAYERS_PER_TEAM + 1, k * PLAYERS_PER_TEAM)]

\* The teams built from one outcome of the shuffle.
TeamsOf(shuffled) ==
    LET starts == Range(Len(shuffled), PLAYERS_PER_TEAM)
    IN  [k \in DOMAIN starts |->
            Slice(shuffled, starts[k], starts[k] + PLAYERS_PER_TEAM)]

\* create_teams(players): the set of results it can return.
create_teams(players) ==
    IF Len(players) = 0
    THEN {<<>>}
    ELSE { TeamsOf(shuffled) : shuffled \in Shuffles(players) }

(* ---- replies ---- *)

\* What a handler sends back: the kind of message, the player count it
\* quotes, the names it lists and the teams it announces.
Reply(kind, count, shown, teams) ==
    [kind |-> kind, count |-> count, shown |-> shown, teams |-> teams]

Plain(kind) == Reply(kind, 0, <<>>, <<>>)

\* Outcome of a handler: its in-memory copy of the document, whether it
\* called save_data, and its reply.
Result(data, saved, reply) == [data |-> data, saved |-> saved, reply |-> reply]

\* f"@{username}" if username else name
Display(name, username) ==
    IF Truthy(username) THEN <<"@", username[1]>> ELSE <<name>>

(* ---- Authorization handlers ---- *)

\* Mutant: any caller who is not yet an admin is added, coordinators or not.
addme_command_open(data, user_id) ==
    IF ~is_admin(user_id, data)
    THEN Result([data EXCEPT !.admins = Append(@, user_id)], TRUE,
                Plain("FirstAdmin"))
    ELSE Result(data, FALSE, Plain("AlreadyAdmin"))

addme_command(data, user_id) ==
    IF Len(data.admins) = 0
    THEN Result([data EXCEPT !.admins = Append(@, user_id)], TRUE,
                Plain("FirstAdmin"))
    ELSE IF is_admin(user_id, data)
    THEN Result(data, FALSE, Plain("AlreadyAdmin"))
    ELSE Result(data, FALSE, Plain("AlreadyBootstrapped"))

\* Mutant: the target is appended without being looked for in the list.
addadmin_command_no_lookup(data, user_id, reply_to) ==
    IF ~is_admin(user_id, data)
    THEN Result(data, FALSE, Plain("NotAuthorized"))
    ELSE IF reply_to # None
    THEN LET d == [data EXCEPT !.admins = Append(@, reply_to[1])]
         IN  Result(d, TRUE, Reply("AdminAdded", Len(d.admins), <<>>, <<>>))
    ELSE Result(data, FALSE, Plain("UsageHint"))

\* reply_to is None, or Some(id) of the author of the replied-to message.
addadmin_command(data, user_id, reply_to) ==
    IF ~is_admin(user_id, data)
    THEN Result(data, FALSE, Plain("NotAuthorized"))
    ELSE IF reply_to # None
    THEN LET new_admin_id == reply_to[1]
         IN  IF ~In(new_admin_id, data.admins)
             THEN LET d == [data EXCEPT !.admins = Append(@, new_admin_id)]
                  IN  Result(d, TRUE,
                             Reply("AdminAdded", Len(d.admins), <<>>, <<>>))
             ELSE Result(data, FALSE, Plain("IsAlreadyAdmin"))
    ELSE Result(data, FALSE, Plain("UsageHint"))

\* Mutant: an admin cannot remove themself.
removeadmin_command_not_self(data, user_id, reply_to) ==
    IF ~is_admin(user_id, data) \/ reply_to = Some(user_id)
    THEN Result(data, FALSE, Plain("NotAuthorized"))
    ELSE IF reply_to # None
    THEN IF In(reply_to[1], data.admins)
         THEN LET d == [data EXCEPT !.admins = ListRemove(@, reply_to[1])]
              IN  Result(d, TRUE,
                         Reply("AdminRemoved", Len(d.admins), <<>>, <<>>))
         ELSE Result(data, FALSE, Plain("IsNotAdmin"))
    ELSE Result(data, FALSE, Plain("UsageHint"))

removeadmin_command(data, user_id, reply_to) ==
    IF ~is_admin(user_id, data)
    THEN Result(data, FALSE, Plain("NotAuthorized"))
    ELSE IF reply_to # None
    THEN LET remove_admin_id == reply_to[1]
         IN  IF In(remove_admin_id, data.admins)
             THEN LET d == [data EXCEPT
                               !.admins = ListRemove(@, remove_admin_id)]
                  IN  Result(d, TRUE,
                             Reply("AdminRemoved", Len(d.admins), <<>>, <<>>))
             ELSE Result(data, FALSE, Plain("IsNotAdmin"))
    ELSE Result(data, FALSE, Plain("UsageHint"))

listadmins_command(data) ==
    IF Len(data.admins) = 0
    THEN Result(data, FALSE, Plain("NoAdmins"))
    ELSE Result(data, FALSE, Reply("AdminList", Len(data.admins), <<>>, <<>>))

start_command(data, user_id) ==
    IF is_admin(user_id, data)
    THEN Result(data, FALSE, Plain("WelcomeAdmin"))
    ELSE Result(data, FALSE, Plain("WelcomePlayer"))

help_command(data, user_id) ==
    IF is_admin(user_id, data)
    THEN Result(data, FALSE, Plain("HelpAdmin"))
    ELSE Result(data, FALSE, Plain("HelpPlayer"))

(* ---- Session handlers ---- *)

\* Mutant: the admin check is missing.
begin_command_unguarded(data, user_id, chat_id) ==
    Result([data EXCEPT !.session.active = TRUE,
                        !.session.participants = <<>>,
                        !.session.chat_id = Some(chat_id)],
           TRUE, Plain("SelectionStarted"))

\* Mutant: the participants of the previous session are kept.
begin_command_keep(data, user_id, chat_id) ==
    IF ~is_admin(user_id, data)
    THEN Result(data, FALSE, Plain("NotAuthorized"))
    ELSE Result([data EXCEPT !.session.active = TRUE,
                             !.session.chat_id = Some(chat_id)],
                TRUE, Plain("SelectionStarted"))

begin_command(data, user_id, chat_id) ==
    IF ~is_admin(user_id, data)
    THEN Result(data, FALSE, Plain("NotAuthorized"))
    ELSE Result([data EXCEPT !.session.active = TRUE,
                             !.session.participants = <<>>,
                             !.session.chat_id = Some(chat_id)],
                TRUE, Plain("SelectionStarted"))

\* data["players"].get(str(user_id), {"name": "Unknown", "username": None})
PlayerInfo(data, user_id) ==
    IF str(user_id) \in DOMAIN data.players
    THEN data.players[str(user_id)]
    ELSE [name |-> "Unknown", username |-> None]

\* The player_list end_command builds from the participants.
PlayerList(data) ==
    [i \in DOMAIN data.session.participants |->
        PlayerInfo(data, data.session.participants[i])]

\* Mutant: the empty-roster check is missing.
end_replies_no_empty_check(data, user_id) ==
    IF ~is_admin(user_id, data)
    THEN { Plain("NotAuthorized") }
    ELSE IF ~data.session.active
    THEN { Plain("NoActiveSession") }
    ELSE { Reply("Teams", Len(PlayerList(data)), <<>>, teams) :
             teams \in create_teams(PlayerList(data)) }

\* end_command up to its reply: the set of replies it can send (one per
\* outcome of the shuffle), none of which has changed the document yet.
end_replies(data, user_id) ==
    IF ~is_admin(user_id, data)
    THEN { Plain("NotAuthorized") }
    ELSE IF ~data.session.active
    THEN { Plain("NoActiveSession") }
    ELSE IF data.session.participants = <<>>
    THEN { Plain("EmptyRoster") }
    ELSE LET player_list == PlayerList(data)
         IN  { Reply("Teams", Len(player_list), <<>>, teams) :
                 teams \in create_teams(player_list) }

\* Mutant: ending the session also empties the list of participants.
end_session_clear(data) ==
    [data EXCEPT !.session.active = FALSE, !.session.participants = <<>>]

\* end_command after its reply: the session is ended in the copy loaded at
\* the start of the handler, and that copy is saved.
end_session(data) == [data EXCEPT !.session.active = FALSE]

\* end_command: the set of its outcomes.
end_command(data, user_id) ==
    { IF reply.kind = "Teams"
      THEN Result(end_session(data), TRUE, reply)
      ELSE Result(data, FALSE, reply) :
        reply \in end_replies(data, user_id) }

status_command(data, user_id) ==
    IF ~is_admin(user_id, data)
    THEN Result(data, FALSE, Plain("NotAuthorized"))
    ELSE LET session == data.session
             participant_count == Len(session.participants)
             listing == [i \in DOMAIN session.participants |->
                           LET player == PlayerInfo(data, session.participants[i])
                           IN  Display(player.name, player.username)]
         IN  Result(data, FALSE,
                    Reply(IF session.active THEN "StatusActive"
                                            ELSE "StatusInactive",
                          participant_count,
                          IF participant_count > 0 THEN listing ELSE <<>>,
                          <<>>))

\* Mutant: the session is closed but its participants are kept.
reset_command_close_only(data, user_id) ==
    IF ~is_admin(user_id, data)
    THEN Result(data, FALSE, Plain("NotAuthorized"))
    ELSE Result([data EXCEPT !.session.active = FALSE],
                TRUE, Plain("SessionReset"))

reset_command(data, user_id) ==
    IF ~is_admin(user_id, data)
    THEN Result(data, FALSE, Plain("NotAuthorized"))
    ELSE Result([data EXCEPT !.session.active = FALSE,
                             !.session.participants = <<>>],
                TRUE, Plain("SessionReset"))

(* ---- free-text messages ---- *)

\* Message texts are sequences of characters.
LowerChar(c) ==
    CASE c = "I" -> "i"
      [] c = "N" -> "n"
      [] c = "O" -> "o"
      [] c = "U" -> "u"
      [] c = "T" -> "t"
      [] OTHER   -> c

\* text.lower()
lower(text) == [i \in DOMAIN text |-> LowerChar(text[i])]

Whitespace == {" ", "\n", "\t"}

\* text.strip()
strip(text) ==
    LET solid == { i \in DOMAIN text : text[i] \notin Whitespace }
    IN  IF solid = {}
        THEN <<>>
        ELSE LET first == CHOOSE i \in solid : \A j \in solid : i <= j
                 final == CHOOSE i \in solid : \A j \in solid : j <= i
             IN  SubSeq(text, first, final)

\* The texts the chat may send.
Texts ==
    { <<"I", "n", " ">>, <<"o", "u", "t">>, <<"i", "n", "n">> }

\* Mutant: the chat of the message is never compared with the session's.
other_chat_never(data, chat_id) == FALSE

\* The message comes from a chat other than the open session's.
other_chat(data, chat_id) ==
    data.session.active /\ data.session.chat_id # Some(chat_id)

\* Mutant: the stored record is overwritten with what the message shows.
remember_player_overwrite(data, user_id, user_name, username) ==
    [data EXCEPT !.players =
        DictSet(@, str(user_id), [name |-> user_name, username |-> username])]

\* Mutant: the sender is never recorded.
remember_player_never(data, user_id, user_name, username) == data

\* "Add to players if new"
remember_player(data, user_id, user_name, username) ==
    IF str(user_id) \notin DOMAIN data.players
    THEN [data EXCEPT !.players =
             DictSet(@, str(user_id),
                     [name |-> user_name, username |-> username])]
    ELSE data

\* Mutant: the sender is appended without being looked for in the list.
join_always_append(data, user_id, user_name, username) ==
    LET known == remember_player(data, user_id, user_name, username)
        d == [known EXCEPT !.session.participants = Append(@, user_id)]
    IN  Result(d, TRUE,
               Reply("IsIn", Len(d.session.participants),
                     <<Display(user_name, username)>>, <<>>))

\* "in" in the chat of the open session
join(data, user_id, user_name, username) ==
    LET known == remember_player(data, user_id, user_name, username)
    IN  IF ~In(user_id, known.session.participants)
        THEN LET d == [known EXCEPT !.session.participants =
                                       Append(@, user_id)]
             IN  Result(d, TRUE,
                        Reply("IsIn", Len(d.session.participants),
                              <<Display(user_name, username)>>, <<>>))
        ELSE Result(known, FALSE, Plain("AlreadyIn"))

\* "out" in the chat of the open session
leave(data, user_id, user_name, username) ==
    IF In(user_id, data.session.participants)
    THEN LET d == [data EXCEPT !.session.participants =
                                  ListRemove(@, user_id)]
         IN  Result(d, TRUE,
                    Reply("IsOut", Len(d.session.participants),
                          <<Display(user_name, username)>>, <<>>))
    ELSE Result(data, FALSE, Plain("NotInList"))

\* message_text = update.message.text.lower().strip()
MessageText(text) == strip(lower(text))

\* handle_message once it has read the sender, the chat and message_text
\* from the update.
handle_message(data, user_id, user_name, username, chat_id, message_text) ==
    IF other_chat(data, chat_id)
    THEN Result(data, FALSE, Plain("Ignored"))
    ELSE IF message_text = <<"i", "n">>
    THEN IF ~data.session.active
         THEN Result(data, FALSE, Plain("NoActiveSelection"))
         ELSE join(data, user_id, user_name, username)
    ELSE IF message_text = <<"o", "u", "t">>
    THEN IF ~data.session.active
         THEN Result(data, FALSE, Plain("NoActiveSelection"))
         ELSE leave(data, user_id, user_name, username)
    ELSE Result(data, FALSE, Plain("NoReply"))

(* ---- the state machine: one step per handled update ---- *)

\* What the handler of the step just taken found when it loaded the
\* document: the session's flag, scope and number of participants; whether
\* the sender of a command was an admin (FALSE for a message and for
\* listadmins, which do not ask); whether a message came from the chat an
\* open session is scoped to; whether the sender of an in-scope "in" or "out"
\* was among the participants.
Found(data, by_admin, in_scope, member) ==
    [ active   |-> data.session.active,
      chat_id  |-> data.session.chat_id,
      joined   |-> Len(data.session.participants),
      by_admin |-> by_admin,
      in_scope |-> in_scope,
      member   |-> member ]

FoundByCommand(data, user_id) ==
    Found(data, is_admin(user_id, data), FALSE, FALSE)

FoundByMessage(data, user_id, chat_id, message_text) ==
    LET in_scope == data.session.active /\ data.session.chat_id = Some(chat_id)
    IN  Found(data, FALSE, in_scope,
              /\ in_scope
              /\ message_text \in { <<"i", "n">>, <<"o", "u", "t">> }
              /\ In(user_id, data.session.participants))

\* A handler ran on the loaded document with outcome r.  said is the text of
\* the update as the handler compared it (empty for a command).
Step(op, said, found, r) ==
    /\ file' = IF r.saved THEN save_data(r.data) ELSE file
    /\ last' = [op |-> op, said |-> said, reply |-> r.reply, before |-> found]

NoStep == [ op     |-> "none",
            said   |-> <<>>,
            reply  |-> Plain("none"),
            before |-> Found(init_data, FALSE, FALSE, FALSE) ]

\* What the chat has heard once the update is handled: a begin or a reset
\* by an admin starts over, an "in" or an "out" in the chat of the open
\* session adds or removes its sender.
Heard(op, user_id, said, found) ==
    IF op \in {"begin", "reset"} /\ found.by_admin
    THEN {}
    ELSE IF op = "message" /\ found.in_scope /\ said = <<"i", "n">>
    THEN opted_in \cup {user_id}
    ELSE IF op = "message" /\ found.in_scope /\ said = <<"o", "u", "t">>
    THEN opted_in \ {user_id}
    ELSE opted_in

\* A handler ran from its load to its end with no other handler in between.
Sequential(op, user_id, said, found, r) ==
    /\ Step(op, said, found, r)
    /\ opted_in' = Heard(op, user_id, said, found)
    /\ UNCHANGED tasks

Init ==
    /\ file = <<>>
    /\ last = NoStep
    /\ tasks = <<>>
    /\ opted_in = {}

Start(user_id) ==
    Sequential("start", user_id, <<>>, FoundByCommand(load_data(file), user_id),
         start_command(load_data(file), user_id))

Help(user_id) ==
    Sequential("help", user_id, <<>>, FoundByCommand(load_data(file), user_id),
         help_command(load_data(file), user_id))

AddMe(user_id) ==
    Sequential("addme", user_id, <<>>, FoundByCommand(load_data(file), user_id),
         addme_command(load_data(file), user_id))

AddAdmin(user_id, reply_to) ==
    Sequential("addadmin", user_id, <<>>, FoundByCommand(load_data(file), user_id),
         addadmin_command(load_data(file), user_id, reply_to))

RemoveAdmin(user_id, reply_to) ==
    Sequential("removeadmin", user_id, <<>>, FoundByCommand(load_data(file), user_id),
         removeadmin_command(load_data(file), user_id, reply_to))

ListAdmins ==
    /\ Step("listadmins", <<>>, Found(load_data(file), FALSE, FALSE, FALSE),
            listadmins_command(load_data(file)))
    /\ UNCHANGED <<tasks, opted_in>>

Begin(user_id, chat_id) ==
    Sequential("begin", user_id, <<>>, FoundByCommand(load_data(file), user_id),
         begin_command(load_data(file), user_id, chat_id))

End(user_id) ==
    \E r \in end_command(load_data(file), user_id) :
        Sequential("end", user_id, <<>>,
                   FoundByCommand(load_data(file), user_id), r)

Status(user_id) ==
    Sequential("status", user_id, <<>>, FoundByCommand(load_data(file), user_id),
         status_command(load_data(file), user_id))

Reset(user_id) ==
    Sequential("reset", user_id, <<>>, FoundByCommand(load_data(file), user_id),
         reset_command(load_data(file), user_id))

Message(user_id, profile, chat_id, message_text) ==
    Sequential("message", user_id, message_text,
         FoundByMessage(load_data(file), user_id, chat_id, message_text),
         handle_message(load_data(file), user_id, profile.name,
                        profile.username, chat_id, message_text))

\* The author of the replied-to message, when the command is a reply.
ReplyTargets == {None} \cup { Some(a) : a \in Actors }

Next ==
    \/ \E u \in Actors : Start(u)
    \/ \E u \in Actors : Help(u)
    \/ \E u \in Actors : AddMe(u)
    \/ \E u \in Actors, t \in ReplyTargets : AddAdmin(u, t)
    \/ \E u \in Actors, t \in ReplyTargets : RemoveAdmin(u, t)
    \/ ListAdmins
    \/ \E u \in Actors, c \in Chats : Begin(u, c)
    \/ \E u \in Actors : End(u)
    \/ \E u \in Actors : Status(u)
    \/ \E u \in Actors : Reset(u)
    \/ \E t \in Texts :
          LET message_text == MessageText(t)
          IN  \E u \in Actors, c \in Chats :
                  \E p \in ProfilesOf(u) : Message(u, p, c, message_text)

Spec == Init /\ [][Next]_vars

(* ---- rosters larger than a team ---- *)

\* The sender profile of the j-th kind.
RosterProfile(j) ==
    [ name     |-> ToString(j),
      username |-> IF j % 2 = 0 THEN Some(ToString(j)) ELSE None ]

\* The document after actor 1 has bootstrapped and begun a session in chat 1.
Opened == begin_command(addme_command(init_data, 1).data, 1, 1).data

\* The document after actors 1..n have each said "in" in chat 1, their
\* profiles cycling through k kinds.
RECURSIVE Joined(_, _)
Joined(n, k) ==
    IF n = 0
    THEN Opened
    ELSE LET profile == RosterProfile(((n - 1) % k) + 1)
         IN  handle_message(Joined(n - 1, k), n, profile.name,
                            profile.username, 1, <<"i", "n">>).data

\* n joiners of k kinds of profile: one or two kinds for any n up to
\* MaxRoster, all different up to MaxDistinct.
Scenarios ==
    { sc \in (0..MaxRoster) \X (1..MaxDistinct) :
        \/ sc[2] = 1
        \/ sc[2] = 2 /\ sc[1] >= 2
        \/ sc[2] = sc[1] }

InitRoster ==
    /\ \E sc \in Scenarios :
          /\ file = save_data(Joined(sc[1], sc[2]))
          /\ opted_in = 1..sc[1]
    /\ last = NoStep
    /\ tasks = <<>>

\* Actor 1 is the coordinator, actor 2 is not.
RosterUsers == {1, 2}

NextRoster ==
    \/ \E u \in RosterUsers : End(u)
    \/ \E u \in RosterUsers : Status(u)
    \/ \E u \in RosterUsers : Reset(u)
    \/ \E u \in RosterUsers : Begin(u, 1)

SpecRoster == InitRoster /\ [][NextRoster]_vars

\* create_teams applied once to the player list of the document.
Partition ==
    /\ last.op = "none"
    /\ \E teams \in create_teams(PlayerList(load_data(file))) :
          last' = [ op     |-> "create_teams",
                    said   |-> <<>>,
                    reply  |-> Reply("Teams", Len(PlayerList(load_data(file))),
                                     <<>>, teams),
                    before |-> Found(load_data(file), FALSE, FALSE, FALSE) ]
    /\ UNCHANGED <<file, tasks, opted_in>>

SpecPartition == InitRoster /\ [][Partition]_vars

(* ---- the store when a save can fail or be interrupted ---- *)

\* A handler that has loaded the document and holds data, its own copy, to
\* save: pc tells where it stands.
Task(op, loaded, data, pc) ==
    [op |-> op, loaded |-> loaded, data |-> data, pc |-> pc]

\* A handler ran up to its call of save_data, or to its end if it saves
\* nothing.  No other handler starts before the save is over.
Saving(op, user_id, said, found, r) ==
    /\ tasks = <<>>
    /\ last' = [op |-> op, said |-> said, reply |-> r.reply, before |-> found]
    /\ opted_in' = Heard(op, user_id, said, found)
    /\ tasks' = IF r.saved
                THEN <<Task(op, load_data(file), r.data, "open")>>
                ELSE <<>>
    /\ UNCHANGED file

\* The handlers that can save, each for actor user_id in chat 1.
Handle(user_id) ==
    LET data == load_data(file)
        found == FoundByCommand(data, user_id)
        profile == RosterProfile(user_id)
    IN  \/ Saving("addme", user_id, <<>>, found, addme_command(data, user_id))
        \/ \E t \in RosterUsers :
              Saving("addadmin", user_id, <<>>, found,
                     addadmin_command(data, user_id, Some(t)))
        \/ \E t \in RosterUsers :
              Saving("removeadmin", user_id, <<>>, found,
                     removeadmin_command(data, user_id, Some(t)))
        \/ Saving("begin", user_id, <<>>, found,
                  begin_command(data, user_id, 1))
        \/ \E r \in end_command(data, user_id) :
              Saving("end", user_id, <<>>, found, r)
        \/ Saving("reset", user_id, <<>>, found, reset_command(data, user_id))
        \/ \E message_text \in { <<"i", "n">>, <<"o", "u", "t">> } :
              Saving("message", user_id, message_text,
                     FoundByMessage(data, user_id, 1, message_text),
                     handle_message(data, user_id, profile.name,
                                    profile.username, 1, message_text))

\* open(DATA_FILE, "w"): the file is emptied, or open raises and the file
\* stays as it was.
SaveOpen ==
    /\ tasks # <<>>
    /\ tasks[1].pc = "open"
    /\ \/ /\ file' = Written(tasks[1].data, 0)
          /\ tasks' = <<[tasks[1] EXCEPT !.pc = "dump"]>>
       \/ /\ tasks' = <<>>
          /\ UNCHANGED file
    /\ UNCHANGED <<last, opted_in>>

\* json.dump writes the next member.
SaveWrite ==
    /\ tasks # <<>>
    /\ tasks[1].pc = "dump"
    /\ file[2] < Len(Keys)
    /\ file' = Written(tasks[1].data, file[2] + 1)
    /\ UNCHANGED <<last, tasks, opted_in>>

\* json.dump and the with block end: the whole document is in the file.
SaveClose ==
    /\ tasks # <<>>
    /\ tasks[1].pc = "dump"
    /\ file[2] = Len(Keys)
    /\ file' = save_data(tasks[1].data)
    /\ tasks' = <<>>
    /\ UNCHANGED <<last, opted_in>>

\* A write raises (the exception is caught and printed) or the process is
\* stopped and started again: the file stays as far as it was written.
SaveFail ==
    /\ tasks # <<>>
    /\ tasks[1].pc = "dump"
    /\ tasks' = <<>>
    /\ UNCHANGED <<file, last, opted_in>>

NextStore ==
    \/ \E u \in RosterUsers : Handle(u)
    \/ SaveOpen
    \/ SaveWrite
    \/ SaveClose
    \/ SaveFail

SpecStore == Init /\ [][NextStore]_vars

(* ---- handlers that interleave at their awaits ---- *)

\* Mutant: handle_message too replies before it saves.
saves_after_reply_message(op) == op \in {"end", "message"}

\* The handlers that await their reply between the load and the save:
\* end_command alone; every other handler saves first and replies last.
saves_after_reply(op) == op = "end"

\* A handler ran from its load to its first await with outcome r.  When its
\* save comes after that await it is suspended with its copy of the
\* document, and other handlers run before it goes on.
Concurrent(op, user_id, said, found, r) ==
    /\ last' = [op |-> op, said |-> said, reply |-> r.reply, before |-> found]
    /\ opted_in' = Heard(op, user_id, said, found)
    /\ IF r.saved /\ saves_after_reply(op)
       THEN /\ Len(tasks) < MaxPending
            /\ tasks' = Append(tasks,
                               Task(op, load_data(file), r.data, "reply"))
            /\ UNCHANGED file
       ELSE /\ file' = IF r.saved THEN save_data(r.data) ELSE file
            /\ UNCHANGED tasks

\* The session commands and the messages, for actor user_id in chat 1.
Run(user_id) ==
    LET data == load_data(file)
        found == FoundByCommand(data, user_id)
        profile == RosterProfile(user_id)
    IN  \/ Concurrent("begin", user_id, <<>>, found,
                      begin_command(data, user_id, 1))
        \/ \E r \in end_command(data, user_id) :
              Concurrent("end", user_id, <<>>, found, r)
        \/ Concurrent("reset", user_id, <<>>, found,
                      reset_command(data, user_id))
        \/ \E message_text \in { <<"i", "n">>, <<"o", "u", "t">> } :
              Concurrent("message", user_id, message_text,
                         FoundByMessage(data, user_id, 1, message_text),
                         handle_message(data, user_id, profile.name,
                                        profile.username, 1, message_text))

\* The await of suspended handler i is over: it saves its copy.
Resume(i) ==
    /\ file' = save_data(tasks[i].data)
    /\ tasks' = DropAt(tasks, i)
    /\ last' = [ op     |-> "save",
                 said   |-> <<>>,
                 reply  |-> Plain("none"),
                 before |-> Found(tasks[i].loaded, FALSE, FALSE, FALSE) ]
    /\ UNCHANGED opted_in

\* A session has been begun in chat 1 by actor 1, the only admin.
InitRace ==
    /\ file = save_data(Opened)
    /\ last = NoStep
    /\ tasks = <<>>
    /\ opted_in = {}

NextRace ==
    \/ \E u \in RosterUsers : Run(u)
    \/ \E i \in DOMAIN tasks : Resume(i)

SpecRace == InitRace /\ [][NextRace]_vars

(* ---- the persisted state, as the next handler will load it ---- *)

Doc == load_data(file)

admins == Doc.admins

players == Doc.players

session == Doc.session

participants == Doc.session.participants

(* ---- C1 ---- *)

\* A step of a coordinator-only command taken by user_id.
GatedStep(user_id) ==
    \/ last'.op = "begin" /\ \E c \in Chats : Begin(user_id, c)
    \/ last'.op = "end" /\ End(user_id)
    \/ last'.op = "reset" /\ Reset(user_id)
    \/ last'.op = "addadmin" /\ \E t \in ReplyTargets : AddAdmin(user_id, t)
    \/ last'.op = "removeadmin"
         /\ \E t \in ReplyTargets : RemoveAdmin(user_id, t)

\* C1: begin, end, reset, addadmin and removeadmin invoked by an actor who is
\* not in the coordinator set are answered NotAuthorized and leave the whole
\* persisted document (admins, players, session) as it was.
C1_NonCoordinatorDenied ==
    [][ ~last'.before.by_admin =>
          \A u \in Actors :
              (~is_admin(u, Doc) /\ GatedStep(u)) =>
                  (file' = file /\ last'.reply.kind = "NotAuthorized") ]_vars

\* A non-coordinator was denied begin while coordinators exist and an open
\* session holds participants.
C1_Witness ==
    /\ last.op = "begin"
    /\ last.reply.kind = "NotAuthorized"
    /\ Len(admins) > 0
    /\ session.active
    /\ Len(participants) > 0

(* ---- C2 ---- *)

\* C2: addme by a when the coordinator set is empty makes a the only
\* coordinator; addme by anyone (a again, or another b) when the set is not
\* empty leaves it unchanged, so right after a bootstrap it is still <<a>>.
C2_Bootstrap ==
    [][ last'.op = "addme" =>
          \A a \in Actors :
              AddMe(a) =>
                  IF admins = <<>>
                  THEN admins' = <<a>> /\ is_admin(a, load_data(file'))
                  ELSE admins' = admins
                       /\ (last.reply.kind = "FirstAdmin" => Len(admins') = 1) ]_vars

\* A second actor tried to bootstrap after the first one succeeded, and the
\* set still holds the first one alone.
C2_Witness ==
    /\ last.op = "addme"
    /\ last.reply.kind = "AlreadyBootstrapped"
    /\ Len(admins) = 1

(* ---- C3 ---- *)

\* C3: begin by a coordinator from chat c, whatever the session was, leaves
\* the session open, scoped to c, with no participants, and leaves the
\* coordinator set and the actor table unchanged.
C3_BeginOpensFresh ==
    [][ last'.op = "begin" =>
          \A u \in Actors, c \in Chats :
              (is_admin(u, Doc) /\ Begin(u, c)) =>
                  /\ session' = [ active       |-> TRUE,
                                  participants |-> <<>>,
                                  chat_id      |-> Some(c) ]
                  /\ admins' = admins
                  /\ players' = players
                  /\ last'.reply.kind = "SelectionStarted" ]_vars

\* A begin from one chat replaced a session that was open in another chat
\* and had participants.
C3_Witness ==
    /\ last.op = "begin"
    /\ last.reply.kind = "SelectionStarted"
    /\ last.before.active
    /\ last.before.joined > 0
    /\ last.before.chat_id # session.chat_id
    /\ participants = <<>>

(* ---- C4 ---- *)

CeilDiv(n, d) == (n + d - 1) \div d

Sizes(teams) == [i \in DOMAIN teams |-> Len(teams[i])]

\* C4: end by a coordinator fails with NoActiveSession when the session is
\* closed and with EmptyRoster when it is open without participants, the
\* document staying as it was (the empty session stays open); with N >= 1
\* participants it announces ceil(N/6) teams and the session becomes closed;
\* thirteen participants give teams of 6, 6 and 1.
C4_Finalize ==
    [][ (last'.op = "end" /\ last'.before.by_admin) =>
          IF ~session.active
          THEN /\ last'.reply.kind = "NoActiveSession"
               /\ file' = file
          ELSE IF participants = <<>>
          THEN /\ last'.reply.kind = "EmptyRoster"
               /\ file' = file
               /\ session'.active
          ELSE /\ last'.reply.kind = "Teams"
               /\ Len(last'.reply.teams)
                    = CeilDiv(Len(participants), PLAYERS_PER_TEAM)
               /\ ~session'.active
               /\ Len(participants) = 13 =>
                    Sizes(last'.reply.teams) = <<6, 6, 1>> ]_vars

\* Thirteen actors had joined and the coordinator's end announced teams of
\* 6, 6 and 1 and closed the session.
C4_Witness ==
    /\ last.op = "end"
    /\ last.before.by_admin
    /\ last.reply.kind = "Teams"
    /\ last.before.active
    /\ last.before.joined = 13
    /\ Sizes(last.reply.teams) = <<6, 6, 1>>
    /\ ~session.active

(* ---- C7 ---- *)

\* How many times x occurs in lst.
Count(x, lst) == Cardinality({ i \in DOMAIN lst : lst[i] = x })

RECURSIVE Flatten(_)
Flatten(teams) ==
    IF teams = <<>> THEN <<>> ELSE Head(teams) \o Flatten(Tail(teams))

Members(lst) == { lst[i] : i \in DOMAIN lst }

PartitionLaw(roster, teams) ==
    LET N == Len(roster)
    IN  /\ Len(teams) = CeilDiv(N, PLAYERS_PER_TEAM)
        /\ N = 0 => teams = <<>>
        /\ \A i \in 1..(Len(teams) - 1) : Len(teams[i]) = PLAYERS_PER_TEAM
        /\ N > 0 =>
              Len(teams[Len(teams)]) =
                  IF N % PLAYERS_PER_TEAM = 0 THEN PLAYERS_PER_TEAM
                                              ELSE N % PLAYERS_PER_TEAM
        /\ \A x \in Members(roster) \cup Members(Flatten(teams)) :
              Count(x, Flatten(teams)) = Count(x, roster)

\* C7: whatever the shuffle picks, create_teams returns ceil(N/6) teams (none
\* for N = 0), all but the last of exactly 6 members, the last of N mod 6
\* members (6 when N mod 6 = 0), and the teams together hold every member of
\* the roster as many times as the roster does.
C7_PartitionSizeLaw ==
    last.op = "create_teams" =>
        PartitionLaw(PlayerList(Doc), last.reply.teams)

\* Seven different players were split into a team of six and a team of one,
\* in an order other than the roster's.
C7_Witness ==
    /\ last.op = "create_teams"
    /\ Len(PlayerList(Doc)) = 7
    /\ Cardinality(Members(PlayerList(Doc))) = 7
    /\ Sizes(last.reply.teams) = <<6, 1>>
    /\ Flatten(last.reply.teams) # PlayerList(Doc)

(* ---- C5 ---- *)

NoDuplicates(lst) == \A i, j \in DOMAIN lst : lst[i] = lst[j] => i = j

\* The session is open and chat_id is the chat it is scoped to.
InScope(chat_id) == session.active /\ session.chat_id = Some(chat_id)

\* C5: in an open session an in-scope "in" from a participant leaves the
\* participants as they are, an in-scope "in" from anyone else appends them
\* once, and an in-scope "out" from a non-participant leaves the participants
\* as they are; the participants never hold an actor twice.
C5_IdempotentJoinLeave ==
    [][ (last'.op = "message" /\ last'.before.in_scope) =>
          /\ NoDuplicates(participants')
          /\ (last'.said = <<"i", "n">> /\ last'.before.member) =>
                (participants' = participants
                 /\ last'.reply.kind = "AlreadyIn")
          /\ (last'.said = <<"i", "n">> /\ ~last'.before.member) =>
                \E u \in Actors :
                    /\ ~In(u, participants)
                    /\ participants' = Append(participants, u)
          /\ (last'.said = <<"o", "u", "t">> /\ ~last'.before.member) =>
                (participants' = participants
                 /\ last'.reply.kind = "NotInList") ]_vars

\* A participant said "in" a second time and was told so, the session still
\* holding more than one participant.
C5_Witness ==
    /\ last.op = "message"
    /\ last.said = <<"i", "n">>
    /\ last.reply.kind = "AlreadyIn"
    /\ Len(participants) > 1
    /\ last.before.joined = Len(participants)

(* ---- C6 ---- *)

\* C6: a message ("in", "out" or any other text) received while the session
\* is closed, or from a chat other than the one the open session is scoped
\* to, changes nothing of the persisted document and joins nobody.
C6_ScopeIsolation ==
    [][ (last'.op = "message" /\ ~last'.before.in_scope) =>
          /\ file' = file
          /\ last'.reply.kind \in IF session.active
                                  THEN {"Ignored"}
                                  ELSE {"NoActiveSelection", "NoReply"} ]_vars

\* An "in" arrived from another chat while a session with a participant was
\* open, and went unanswered.
C6_Witness ==
    /\ last.op = "message"
    /\ last.said = <<"i", "n">>
    /\ last.reply.kind = "Ignored"
    /\ session.active
    /\ Len(participants) > 0
    /\ Len(participants) < NumActors

(* ---- C8 ---- *)

\* C8: whenever the session is not open its scope is null.
C8_ScopeOnlyWhileOpen == ~session.active => session.chat_id = None

(* ---- C9 ---- *)

\* C9 as claimed: after a successful end the session is closed and holds no
\* participants, and a status reply of a closed session lists nobody.
C9_FinalizeClearsParticipants ==
    /\ (last.op = "end" /\ last.reply.kind = "Teams") =>
          (~session.active /\ participants = <<>>)
    /\ (last.op = "status" /\ last.reply.kind = "StatusInactive") =>
          (last.reply.count = 0 /\ last.reply.shown = <<>>)

\* C9 as the code has it: a successful end closes the session and changes
\* nothing else of the document, so the finalized participants stay in
\* session.participants (until the next begin or reset), and status answers
\* with as many names as the session holds participants, open or closed.
C9_FinalizeKeepsParticipants ==
    [][ /\ (last'.op = "end" /\ last'.reply.kind = "Teams") =>
              /\ ~session'.active
              /\ participants' = participants
              /\ Len(participants') = last'.reply.count
              /\ Doc' = [Doc EXCEPT !.session.active = FALSE]
        /\ (last'.op = "status" /\ last'.before.by_admin) =>
              /\ file' = file
              /\ last'.reply.count = Len(participants)
              /\ Len(last'.reply.shown) = Len(participants) ]_vars

\* A status asked after an end lists the finalized participants of the
\* closed session.
C9_Witness ==
    /\ last.op = "status"
    /\ last.reply.kind = "StatusInactive"
    /\ ~session.active
    /\ last.reply.count > 0
    /\ Len(last.reply.shown) = Len(participants)

(* ---- C10 ---- *)

\* The record handle_message would store for a sender.
Observed(profile) == [name |-> profile.name, username |-> profile.username]

\* A step in which u, showing profile p, joined the open session.
Joins(u, p) ==
    /\ ~In(u, participants)
    /\ \E c \in Chats :
          /\ InScope(c)
          /\ Message(u, p, c, <<"i", "n">>)

\* The step just taken was an in-scope "in" of someone not yet a participant.
JoinStep ==
    /\ last'.op = "message"
    /\ last'.said = <<"i", "n">>
    /\ last'.before.in_scope
    /\ ~last'.before.member

\* C10 as claimed: after a join the joiner's record is what the message
\* showed, whether the record existed or not, and no record is ever deleted.
C10_JoinUpserts ==
    [][ /\ DOMAIN players \subseteq DOMAIN players'
        /\ JoinStep =>
              \A u \in Actors, p \in Profiles :
                  Joins(u, p) =>
                      (str(u) \in DOMAIN players'
                       /\ players'[str(u)] = Observed(p)) ]_vars

\* C10 as the code has it: a join creates the joiner's record from what the
\* message showed when there was none and leaves an existing record as it
\* is; no step deletes or changes an existing record.
C10_JoinCreatesOnly ==
    [][ /\ \A k \in DOMAIN players :
              k \in DOMAIN players' /\ players'[k] = players[k]
        /\ JoinStep =>
              \A u \in Actors, p \in Profiles :
                  Joins(u, p) =>
                      /\ str(u) \in DOMAIN players'
                      /\ str(u) \notin DOMAIN players =>
                            players'[str(u)] = Observed(p) ]_vars

\* An actor joined showing a name other than the one stored for them, and
\* the stored one stayed.
C10_Witness ==
    /\ last.op = "message"
    /\ last.reply.kind = "IsIn"
    /\ Len(participants) > 0
    /\ LET joiner == participants[Len(participants)]
           stored == players[str(joiner)]
       IN  last.reply.shown # <<Display(stored.name, stored.username)>>

(* ---- C11 ---- *)

\* The step just taken replied and saved as outcome r of a handler says.
Matches(r) ==
    /\ r.reply = last'.reply
    /\ file' = IF r.saved THEN save_data(r.data) ELSE file

\* C11: addadmin and removeadmin change the coordinator set only when the
\* caller is a coordinator; granting a target who is already a coordinator
\* and revoking one who is not leave the set as it is and are answered with
\* a note, not a refusal; a grant appends the target, a revoke removes it;
\* the set never holds an identifier twice.
C11_Delegation ==
    [][ /\ file' # file => NoDuplicates(admins')
        /\ last'.op = "addadmin" =>
              \A u \in Actors, t \in Actors :
                  (/\ is_admin(u, Doc) = last'.before.by_admin
                   /\ Matches(addadmin_command(Doc, u, Some(t)))) =>
                      IF ~is_admin(u, Doc)
                      THEN admins' = admins
                           /\ last'.reply.kind = "NotAuthorized"
                      ELSE IF is_admin(t, Doc)
                      THEN file' = file
                           /\ last'.reply.kind = "IsAlreadyAdmin"
                      ELSE admins' = Append(admins, t)
                           /\ last'.reply.kind = "AdminAdded"
        /\ last'.op = "removeadmin" =>
              \A u \in Actors, t \in Actors :
                  (/\ is_admin(u, Doc) = last'.before.by_admin
                   /\ Matches(removeadmin_command(Doc, u, Some(t)))) =>
                      IF ~is_admin(u, Doc)
                      THEN admins' = admins
                           /\ last'.reply.kind = "NotAuthorized"
                      ELSE IF ~is_admin(t, Doc)
                      THEN file' = file
                           /\ last'.reply.kind = "IsNotAdmin"
                      ELSE ~is_admin(t, Doc')
                           /\ Len(admins') = Len(admins) - 1
                           /\ last'.reply.kind = "AdminRemoved" ]_vars

\* A coordinator granted another coordinator once more and was told that
\* the target already is one; the set still holds the two of them.
C11_Witness ==
    /\ last.op = "addadmin"
    /\ last.reply.kind = "IsAlreadyAdmin"
    /\ Len(admins) = 2
    /\ NoDuplicates(admins)

(* ---- C12 ---- *)

\* C12: reset by a coordinator, whether the session was closed or open and
\* whether or not it had participants, leaves the session closed without
\* participants and leaves the coordinator set and the actor table as they
\* were.
C12_ResetClears ==
    [][ (last'.op = "reset" /\ last'.before.by_admin) =>
          /\ ~session'.active
          /\ participants' = <<>>
          /\ admins' = admins
          /\ players' = players
          /\ last'.reply.kind = "SessionReset" ]_vars

\* A reset emptied a session that an end had closed with its participants
\* still listed.
C12_Witness ==
    /\ last.op = "reset"
    /\ last.reply.kind = "SessionReset"
    /\ ~last.before.active
    /\ last.before.joined > 0
    /\ participants = <<>>
    /\ DOMAIN players # {}

(* ---- C17 ---- *)

\* C17: a coordinator who names themself in removeadmin is removed; when
\* they were the only coordinator the set is empty afterwards; and whenever
\* the set is empty, addme by any actor makes that actor the only
\* coordinator.
C17_SelfRemovalThenBootstrap ==
    [][ /\ last'.op = "removeadmin" =>
              \A u \in Actors :
                  (is_admin(u, Doc) /\ RemoveAdmin(u, Some(u))) =>
                      /\ last'.reply.kind = "AdminRemoved"
                      /\ ~is_admin(u, Doc')
                      /\ admins = <<u>> => admins' = <<>>
        /\ (last'.op = "addme" /\ admins = <<>>) =>
              \A a \in Actors :
                  AddMe(a) =>
                      /\ last'.reply.kind = "FirstAdmin"
                      /\ admins' = <<a>> ]_vars

\* A bootstrap succeeded on a document whose session had already been
\* begun: the coordinator set had been emptied by its last member removing
\* themself, and the caller is now the only coordinator.
C17_Witness ==
    /\ last.op = "addme"
    /\ last.reply.kind = "FirstAdmin"
    /\ last.before.chat_id # None
    /\ Len(admins) = 1

(* ---- C20 ---- *)

Unknown == [name |-> "Unknown", username |-> None]

\* C20: every identifier among the participants has a record in the actor
\* table, so neither the teams of an end nor the listing of a status ever
\* shows the "Unknown" placeholder.
C20_ParticipantsAreKnown ==
    /\ \A i \in DOMAIN participants : str(participants[i]) \in DOMAIN players
    /\ last.reply.kind = "Teams" =>
          ~In(Unknown, Flatten(last.reply.teams))
    /\ last.op = "status" =>
          ~In(Display(Unknown.name, Unknown.username), last.reply.shown)

\* An end announced teams holding the stored records of both participants.
C20_Witness ==
    /\ last.op = "end"
    /\ last.reply.kind = "Teams"
    /\ Len(participants) = 2
    /\ Members(Flatten(last.reply.teams))
         = { players[str(participants[i])] : i \in DOMAIN participants }

(* ---- C19 ---- *)

\* C19: the teams of a successful end hold one record for each actor who
\* said "in" in the session's chat after the last begin and has not said
\* "out" since, and for nobody else: the participants of an earlier session
\* are not in them unless they joined again.
C19_RosterFreshness ==
    (last.op = "end" /\ last.reply.kind = "Teams") =>
        /\ Members(participants) = opted_in
        /\ Len(Flatten(last.reply.teams)) = Cardinality(opted_in)
        /\ \A x \in Members(Flatten(last.reply.teams)) :
              \E u \in opted_in : PlayerInfo(Doc, u) = x

\* An end announced teams without an actor who has a record from an earlier
\* join but is not among those who opted in since the last begin.
C19_Witness ==
    /\ last.op = "end"
    /\ last.reply.kind = "Teams"
    /\ opted_in # {}
    /\ \E u \in Actors :
          /\ str(u) \in DOMAIN players
          /\ u \notin opted_in
          /\ ~In(u, participants)
          /\ players[str(u)] \notin Members(Flatten(last.reply.teams))

(* ---- C13 ---- *)

\* C13: when a save is over, completed or not, what a load returns is the
\* document that was there before the save or the document being saved,
\* never a third thing.
C13_SaveAtomic ==
    [][ (tasks # <<>> /\ tasks' = <<>>) =>
          Doc' \in { tasks[1].loaded, tasks[1].data } ]_vars

(* ---- C14 ---- *)

\* C14: a load of no file or of a file that json.load cannot parse returns
\* the fresh initial state; once a save has completed a load returns exactly
\* the document that was saved.
C14_LoadFallback ==
    [][ /\ (file' = <<>> \/ Len(file') = 2) => Doc' = init_data
        /\ (tasks # <<>> /\ tasks' = <<>> /\ Len(file') = 1
              /\ tasks[1].pc = "dump") => Doc' = tasks[1].data ]_vars

\* A save that followed a bootstrap stopped part-way, and the load of the
\* next handler (a second bootstrap) found the fresh initial state.
C14_Witness ==
    /\ Len(file) = 2
    /\ file[1].admins # <<>>
    /\ Doc = init_data
    /\ last.op = "addme"
    /\ last.reply.kind = "FirstAdmin"
    /\ last.before.chat_id = None
    /\ tasks # <<>>
    /\ tasks[1].pc = "open"
    /\ tasks[1].loaded = init_data

(* ---- C16 ---- *)

\* Everyone the chat has heard opt in is among the persisted participants.
AllPersisted == \A u \in opted_in : In(u, participants)

\* A join that is acknowledged and leaves somebody who opted in out of the
\* persisted participants.
JoinLosing ==
    /\ \E u \in RosterUsers : Run(u)
    /\ last'.op = "message"
    /\ last'.reply.kind = "IsIn"
    /\ ~AllPersisted'

\* C16 as claimed: right after an acknowledged join, a second "in" can be
\* handled so that its save leaves an acknowledged joiner out of the
\* persisted participants.
C16_JoinsLoseUpdates ==
    (last.op = "message" /\ last.reply.kind = "IsIn" /\ AllPersisted) =>
        ENABLED JoinLosing

\* C16 as the code has it: handle_message is never suspended between its
\* load and its save, so no "in" or "out" (nor a begin or a reset) loses an
\* acknowledged join; the only step that can leave an acknowledged joiner
\* out of the persisted participants is the save of an end_command that was
\* suspended on its announcement.
C16_OnlyEndLosesJoins ==
    [][ /\ \A i \in DOMAIN tasks' : tasks'[i].op = "end"
        /\ (AllPersisted /\ last'.op # "save") => AllPersisted' ]_vars

\* The save of a suspended end wrote over a join that had been acknowledged
\* in the meantime.
C16_Witness ==
    /\ last.op = "save"
    /\ ~session.active
    /\ \E u \in opted_in : ~In(u, participants)

(* ---- C18 ---- *)

\* C18: a handler that saves after an await saves a copy of the document
\* that is persisted at that moment, and an end announces teams only when no
\* suspended end has announced teams for the same document.
C18_AtomicHandlers ==
    [][ /\ last'.op = "save" =>
              \A i \in DOMAIN tasks :
                  Resume(i) => tasks[i].loaded = Doc
        /\ (last'.op = "end" /\ last'.reply.kind = "Teams") =>
              \A i \in DOMAIN tasks : tasks[i].loaded # Doc ]_vars

====
